---- MODULE Spec2Model ----
(***************************************************************************)
(* colorsplit: the page classifier (detectColor) and the splitting         *)
(* pipeline (processPDFs) of the PDF Color Split page component.           *)
(*                                                                         *)
(* Four specifications share the module's variables:                       *)
(*   Spec        one page component running processPDFs over a selection   *)
(*               of files, every external call (file read, pdf-lib load,   *)
(*               pdf.js load, page render, page copy, save, download)      *)
(*               succeeding or failing nondeterministically, the inputs    *)
(*               changed between runs only;                                *)
(*   SpecLive    Spec with the file input, the slider and the checkbox     *)
(*               used while a run is suspended;                            *)
(*   SpecDetect  detectColor applied to pixel buffers drawn from bounded   *)
(*               sets, at thresholds of the slider's range;                *)
(*   SpecDecide  the final decision of detectColor on counts of sampled    *)
(*               pixels drawn from bounded sets.                           *)
(***************************************************************************)
EXTENDS Integers, Sequences, FiniteSets, TLC

VARIABLES
    \* component state (the $state variables of the page)
    files, colorThreshold, insertBlankPages, processing, progress, results,
    \* locals of the active processPDFs call and its position
    pc, colorPDF, bwPDF, fileIndex, file, pageCount, pageIndex, isColorPage,
    colorPdfBytes, bwPdfBytes,
    \* what the run did to the outside world, and its history
    errorLog, downloads, opened, classified, saveCalls, startInputs, renderFailed,
    \* detectColor applied to a buffer (SpecDetect, SpecDecide)
    imageData, threshold, counts, verdict, returned, prevThreshold, prevVerdict

pipelineVars == <<files, colorThreshold, insertBlankPages, processing, progress,
                  results, pc, colorPDF, bwPDF, fileIndex, file, pageCount, pageIndex,
                  isColorPage, colorPdfBytes, bwPdfBytes, errorLog, downloads,
                  opened, classified, saveCalls, startInputs, renderFailed>>

detectVars == <<imageData, threshold, counts, verdict, returned, prevThreshold,
                prevVerdict>>

vars == <<pipelineVars, detectVars>>

(***************************************************************************)
(* detectColor.  A pixel is <<r, g, b, a>>; imageData.data is modelled as  *)
(* the sequence of its pixels, so the byte stride 40 is a pixel stride of  *)
(* 10.  The code's floating-point comparisons are evaluated over the       *)
(* rationals, each multiplied out to integers.                             *)
(***************************************************************************)

\* i += 40: every 10th pixel is sampled
PixelSkip == 10

\* if (a < 128) continue
AlphaCutoff == 128

\* luminance < 55: the dark regime
DarkCutoff == 55

\* luminance > 200: the bright regime
BrightCutoff == 200

\* chroma floors of the dark, bright and normal regimes
DarkChroma == 8

BrightChroma == 10

NormalChroma == 12

Max2(x, y) == IF x >= y THEN x ELSE y

Min2(x, y) == IF x <= y THEN x ELSE y

\* Math.max(r, g, b)
MaxRGB(p) == Max2(p[1], Max2(p[2], p[3]))

\* Math.min(r, g, b)
MinRGB(p) == Min2(p[1], Min2(p[2], p[3]))

\* Chroma with the minimum left out of the difference
ChromaIsMax(p) == MaxRGB(p)

\* chroma = max - min
Chroma(p) == MaxRGB(p) - MinRGB(p)

\* 1000 * luminance = 299 r + 587 g + 114 b
Luminance1000(p) == 299 * p[1] + 587 * p[2] + 114 * p[3]

IsDark(p) == Luminance1000(p) < DarkCutoff * 1000

IsBright(p) == Luminance1000(p) > BrightCutoff * 1000

\* SaturationExceeds with the comparison turned around
SaturationExceedsFlipped(p, t, tenths) ==
    IF MaxRGB(p) = 0
    THEN 0 < t * tenths
    ELSE Chroma(p) * 1000 < t * tenths * MaxRGB(p)

\* saturation * 100 > t * (tenths / 10), saturation = max = 0 ? 0 : chroma / max
SaturationExceeds(p, t, tenths) ==
    IF MaxRGB(p) = 0
    THEN 0 > t * tenths
    ELSE Chroma(p) * 1000 > t * tenths * MaxRGB(p)

\* saturation > 0.1
SaturationAboveTenth(p) ==
    IF MaxRGB(p) = 0 THEN FALSE ELSE Chroma(p) * 10 > MaxRGB(p)

\* IsColorPixel with the saturation tests only, the chroma tests left out
IsColorPixelSaturationOnly(p, t) ==
    IF IsDark(p)
    THEN SaturationExceeds(p, t, 7)
    ELSE IF IsBright(p)
    THEN SaturationExceeds(p, t, 8)
    ELSE SaturationExceeds(p, t, 10)

\* the three luminance-conditioned rules
IsColorPixel(p, t) ==
    IF IsDark(p)
    THEN SaturationExceeds(p, t, 7) \/ Chroma(p) > DarkChroma
    ELSE IF IsBright(p)
    THEN SaturationExceeds(p, t, 8) \/ Chroma(p) > BrightChroma
    ELSE SaturationExceeds(p, t, 10)
         \/ (Chroma(p) > NormalChroma /\ SaturationAboveTenth(p))

NoCounts == [colorPixels |-> 0, sampledPixels |-> 0, brightPixels |-> 0, darkPixels |-> 0]

\* CountPixel without the alpha test
CountPixelIgnoringAlpha(c, p, t) ==
    [colorPixels   |-> c.colorPixels + (IF IsColorPixel(p, t) THEN 1 ELSE 0),
     sampledPixels |-> c.sampledPixels + 1,
     brightPixels  |-> c.brightPixels + (IF IsBright(p) THEN 1 ELSE 0),
     darkPixels    |-> c.darkPixels
                       + (IF ~IsBright(p) /\ IsDark(p) THEN 1 ELSE 0)]

\* one iteration of the sampling loop on pixel p
CountPixel(c, p, t) ==
    IF p[4] < AlphaCutoff
    THEN c
    ELSE [colorPixels   |-> c.colorPixels + (IF IsColorPixel(p, t) THEN 1 ELSE 0),
          sampledPixels |-> c.sampledPixels + 1,
          brightPixels  |-> c.brightPixels + (IF IsBright(p) THEN 1 ELSE 0),
          darkPixels    |-> c.darkPixels
                            + (IF ~IsBright(p) /\ IsDark(p) THEN 1 ELSE 0)]

\* for (let i = 0; i < data.length; i += 40): k is the 1-based pixel index
RECURSIVE SampleLoop(_, _, _, _)
SampleLoop(data, k, c, t) ==
    IF k > Len(data)
    THEN c
    ELSE SampleLoop(data, k + PixelSkip, CountPixel(c, data[k], t), t)

\* FinalDecision with the base threshold 0.01 whatever the ratios
FinalDecisionBaseOnly(c) ==
    IF c.sampledPixels = 0
    THEN FALSE
    ELSE c.colorPixels * 100 * 100 > c.sampledPixels

\* FinalDecision comparing the fraction colorPixels / sampledPixels, not multiplied
\* by 100, with the thresholds
FinalDecisionOfFraction(c) ==
    IF c.sampledPixels = 0
    THEN FALSE
    ELSE IF c.brightPixels * 10 > 3 * c.sampledPixels
            \/ c.darkPixels * 10 > 3 * c.sampledPixels
         THEN c.colorPixels * 1000 > 5 * c.sampledPixels
         ELSE c.colorPixels * 100 > c.sampledPixels

\* colorPercentage > finalThreshold, with finalThreshold 0.005 when
\* brightRatio > 0.3 or darkRatio > 0.3 and 0.01 otherwise
FinalDecision(c) ==
    IF c.sampledPixels = 0
    THEN FALSE
    ELSE IF c.brightPixels * 10 > 3 * c.sampledPixels
            \/ c.darkPixels * 10 > 3 * c.sampledPixels
         THEN c.colorPixels * 100 * 1000 > 5 * c.sampledPixels
         ELSE c.colorPixels * 100 * 100 > c.sampledPixels

detectColor(data, t) == FinalDecision(SampleLoop(data, 1, NoCounts, t))

(***************************************************************************)
(* SpecDetect: detectColor applied to one buffer at successive thresholds  *)
(* of the slider's range.                                                  *)
(***************************************************************************)

\* <input type="range" min="10" max="100">
MinThreshold == 10

MaxThreshold == 100

\* the largest number of sampled pixels of a drawn buffer
MaxSamples == 3

Gray == <<128, 128, 128, 255>>

Red == <<255, 0, 0, 255>>

\* normal regime, chroma 12, saturation 17.1 %: colored only below threshold 18
FaintMid == <<70, 58, 58, 255>>

\* dark regime, chroma 8, saturation 40 %: colored only below threshold 58
FaintDark == <<20, 12, 12, 255>>

\* skipped by the alpha test
ClearRed == <<255, 0, 0, 127>>

Palette == {Gray, Red, FaintMid, FaintDark, ClearRed}

HueLevels == {0, 1, 12, 63, 200, 255}

\* fully saturated opaque hues: min(R,G,B) = 0 < max(R,G,B)
SaturatedHues ==
    {p \in HueLevels \X HueLevels \X HueLevels \X {255} :
        MinRGB(p) = 0 /\ MaxRGB(p) > 0}

\* a buffer of n pixels whose sampled positions 1, 11, 21, ... hold s[1], s[2], ...
\* and whose other positions hold q
BufferOf(s, n, q) ==
    [k \in 1..n |-> IF (k - 1) % PixelSkip = 0 THEN s[(k - 1) \div PixelSkip + 1] ELSE q]

SampleSeqs == UNION {[1..m -> Palette] : m \in 1..MaxSamples}

\* the shortest and the longest buffer with exactly m sampled positions
BufferLengths(m) == {(m - 1) * PixelSkip + 1, m * PixelSkip}

\* the positions the stride skips hold Red: a colored pixel that must not count
MixedBuffers ==
    UNION {{BufferOf(s, n, Red) : n \in BufferLengths(Len(s))} : s \in SampleSeqs}

UniformBuffers ==
    {[k \in 1..n |-> p] : p \in SaturatedHues, n \in {1, PixelSkip + 1}}

Black == <<0, 0, 0, 255>>

White == <<255, 255, 255, 255>>

\* uniform opaque black and white buffers of one, two and MaxSamples samples
AchromaticBuffers ==
    {[k \in 1..n |-> p] : p \in {Black, White},
                          n \in {1, PixelSkip + 1, MaxSamples * PixelSkip}}

\* alpha 0 over black, red and white
TransparentPixels == {<<0, 0, 0, 0>>, <<255, 0, 0, 0>>, <<255, 255, 255, 0>>}

\* the empty buffer and the uniform fully transparent buffers
TransparentBuffers ==
    {<<>>} \cup {[k \in 1..n |-> p] : p \in TransparentPixels, n \in {1, PixelSkip + 1}}

Buffers == MixedBuffers \cup UniformBuffers \cup AchromaticBuffers \cup TransparentBuffers

InitPipelineIdle ==
    /\ files = <<>>
    /\ colorThreshold = 50   \* let colorThreshold = $state(50)
    /\ insertBlankPages = FALSE
    /\ processing = FALSE
    /\ progress = [msg |-> "", file |-> 0, n |-> 0, total |-> 0]
    /\ results = [colorPages |-> 0, bwPages |-> 0]
    /\ pc = "idle"
    /\ colorPDF = <<>>
    /\ bwPDF = <<>>
    /\ fileIndex = 0
    /\ file = 0
    /\ pageCount = 0
    /\ pageIndex = 0
    /\ isColorPage = FALSE
    /\ colorPdfBytes = FALSE
    /\ bwPdfBytes = FALSE
    /\ errorLog = <<>>
    /\ downloads = <<>>
    /\ opened = <<>>
    /\ classified = <<>>
    /\ saveCalls = <<>>
    /\ startInputs = [files |-> <<>>, colorThreshold |-> 50, insertBlankPages |-> FALSE]
    /\ renderFailed = FALSE

InitDetect ==
    /\ InitPipelineIdle
    /\ imageData \in Buffers
    /\ threshold = 0
    /\ counts = NoCounts
    /\ verdict = FALSE
    /\ returned = FALSE
    /\ prevThreshold = 0
    /\ prevVerdict = FALSE

\* the first classification of the buffer, at any threshold of the slider
Classify(t) ==
    /\ threshold = 0
    /\ threshold' = t
    /\ counts' = SampleLoop(imageData, 1, NoCounts, t)
    /\ verdict' = FinalDecision(counts')
    /\ returned' = TRUE
    /\ UNCHANGED <<imageData, prevThreshold, prevVerdict, pipelineVars>>

\* the same buffer classified again after the slider moved to t: one step up, or
\* back to the lowest position
Reclassify(t) ==
    /\ threshold # 0
    /\ t # threshold
    /\ t \in MinThreshold..MaxThreshold
    /\ prevThreshold' = threshold
    /\ prevVerdict' = verdict
    /\ threshold' = t
    /\ counts' = SampleLoop(imageData, 1, NoCounts, t)
    /\ verdict' = FinalDecision(counts')
    /\ returned' = TRUE
    /\ UNCHANGED <<imageData, pipelineVars>>

NextDetect ==
    \/ \E t \in MinThreshold..MaxThreshold : Classify(t)
    \/ \E t \in {threshold + 1, MinThreshold} : Reclassify(t)

SpecDetect == InitDetect /\ [][NextDetect]_vars

(***************************************************************************)
(* SpecDecide: the decision detectColor takes after its sampling loop, on  *)
(* counts of the sizes at which the final threshold matters: one colored   *)
(* pixel is 0.01 % of 10000 counted pixels and 0.005 % of 20000, the       *)
(* samples of a page rendered to 100000 and to 200000 pixels.              *)
(***************************************************************************)

\* the largest number of colored pixels of a drawn count
MaxColored == 2

\* a few small sample sizes and, for each number c of colored pixels, the sizes
\* around those where c pixels are 0.01 %, between 0.01 % and 0.005 %, and 0.005 %
SampleSizes ==
    {0, 1, 2, 10} \cup {c * k + d : c \in 1..MaxColored,
                                   k \in {10000, 15000, 20000},
                                   d \in {-1, 0, 1}}

\* none, exactly 30 %, just above 30 %, and all of n pixels
Shares(n) == {0, (3 * n) \div 10, (3 * n) \div 10 + 1, n} \cap 0..n

\* the counts the sampling loop can leave for n counted pixels
CountsOf(n) ==
    {c \in [colorPixels : 0..Min2(MaxColored, n), sampledPixels : {n},
            brightPixels : Shares(n), darkPixels : Shares(n)] :
        c.brightPixels + c.darkPixels <= n}

CountRecords == UNION {CountsOf(n) : n \in SampleSizes}

InitDecide ==
    /\ InitPipelineIdle
    /\ imageData = <<>>
    /\ threshold = 0
    /\ counts \in CountRecords
    /\ verdict = FALSE
    /\ returned = FALSE
    /\ prevThreshold = 0
    /\ prevVerdict = FALSE

\* lines 115-130: the empty-sample return, the ratios, the final threshold and
\* the comparison
Decide ==
    /\ ~returned
    /\ verdict' = FinalDecision(counts)
    /\ returned' = TRUE
    /\ UNCHANGED <<imageData, threshold, counts, prevThreshold, prevVerdict, pipelineVars>>

NextDecide == Decide

SpecDecide == InitDecide /\ [][NextDecide]_vars

(***************************************************************************)
(* Spec: the page component.  files is the selected FileList as the        *)
(* sequence of its file names (null and the empty list are both <<>>);     *)
(* colorPDF and bwPDF are the page sequences of the two output documents;  *)
(* colorPdfBytes and bwPdfBytes are TRUE once they hold saved bytes.       *)
(* errorLog is the sequence of console.error calls that come with an       *)
(* error message in progress; downloads the sequence of link.click()       *)
(* calls; saveCalls the sequence of save() calls.  opened and classified   *)
(* are history: the files that reached the page loop, and the verdict of   *)
(* every page with the threshold read for it.  startInputs is the          *)
(* selection and the options as they were when the run started, and        *)
(* renderFailed tells that the render try block of the page in progress    *)
(* ended in its catch.                                                     *)
(***************************************************************************)

\* the largest number of files of a selection
MaxFiles == 3

\* the largest number of pages of all files of a run together
MaxTotalPages == 2

\* let colorThreshold = $state(50)
DefaultThreshold == 50

\* the slider positions the user may choose before a run
SliderStops == {DefaultThreshold, MaxThreshold}

\* what pdf.js may render a page to: a gray page, a red page, and a page of a
\* faint dark tint that is colored at thresholds below 58 only
PageRasters == {[k \in 1..(PixelSkip + 1) |-> p] : p \in {Gray, Red, FaintDark}}

Msg(m, f, n, total) == [msg |-> m, file |-> f, n |-> n, total |-> total]

LogEntry(kind, f, page) == [kind |-> kind, file |-> f, page |-> page]

\* a page of a source document, and the page addPage() with no argument adds
SourcePage(f, page) == [file |-> f, page |-> page]

BlankPage == [file |-> 0, page |-> 0]

\* file.name, file being the loop's const file = files[fileIndex]
FileName == file

Init ==
    /\ InitPipelineIdle
    /\ imageData = <<>>
    /\ threshold = 0
    /\ counts = NoCounts
    /\ verdict = FALSE
    /\ returned = FALSE
    /\ prevThreshold = 0
    /\ prevVerdict = FALSE

\* handleFileChange: files = target.files
handleFileChange(n) ==
    /\ pc = "idle"
    /\ files' = [i \in 1..n |-> i]
    /\ UNCHANGED <<colorThreshold, insertBlankPages, processing, progress, results,
                   pc, colorPDF, bwPDF, fileIndex, pageCount, pageIndex, isColorPage,
                   colorPdfBytes, bwPdfBytes, errorLog, downloads, opened, classified,
                   saveCalls, detectVars,
                   file, startInputs, renderFailed>>

\* bind:value={colorThreshold}
SetThreshold(t) ==
    /\ pc = "idle"
    /\ t # colorThreshold
    /\ colorThreshold' = t
    /\ UNCHANGED <<files, insertBlankPages, processing, progress, results,
                   pc, colorPDF, bwPDF, fileIndex, pageCount, pageIndex, isColorPage,
                   colorPdfBytes, bwPdfBytes, errorLog, downloads, opened, classified,
                   saveCalls, detectVars,
                   file, startInputs, renderFailed>>

\* bind:checked={insertBlankPages}
ToggleBlankPages ==
    /\ pc = "idle"
    /\ insertBlankPages' = ~insertBlankPages
    /\ UNCHANGED <<files, colorThreshold, processing, progress, results,
                   pc, colorPDF, bwPDF, fileIndex, pageCount, pageIndex, isColorPage,
                   colorPdfBytes, bwPdfBytes, errorLog, downloads, opened, classified,
                   saveCalls, detectVars,
                   file, startInputs, renderFailed>>

\* the process button: disabled={!files || files.length === 0 || processing}
ButtonEnabled == Len(files) > 0 /\ ~processing

\* Start without the reset of results
StartKeepsResults ==
    /\ ButtonEnabled
    /\ processing' = TRUE
    /\ progress' = Msg("progress_starting", 0, 0, 0)
    /\ pc' = "create"
    /\ colorPDF' = <<>>
    /\ bwPDF' = <<>>
    /\ fileIndex' = 0
    /\ pageCount' = 0
    /\ pageIndex' = 0
    /\ isColorPage' = FALSE
    /\ colorPdfBytes' = FALSE
    /\ bwPdfBytes' = FALSE
    /\ errorLog' = <<>>
    /\ downloads' = <<>>
    /\ opened' = <<>>
    /\ classified' = <<>>
    /\ saveCalls' = <<>>
    /\ file' = 0
    /\ renderFailed' = FALSE
    /\ startInputs' = [files |-> files, colorThreshold |-> colorThreshold,
                       insertBlankPages |-> insertBlankPages]
    /\ UNCHANGED <<files, colorThreshold, insertBlankPages, results, detectVars>>

\* Start without processing = true
StartLeavesButtonEnabled ==
    /\ ButtonEnabled
    /\ progress' = Msg("progress_starting", 0, 0, 0)
    /\ results' = [colorPages |-> 0, bwPages |-> 0]
    /\ pc' = "create"
    /\ colorPDF' = <<>>
    /\ bwPDF' = <<>>
    /\ fileIndex' = 0
    /\ pageCount' = 0
    /\ pageIndex' = 0
    /\ isColorPage' = FALSE
    /\ colorPdfBytes' = FALSE
    /\ bwPdfBytes' = FALSE
    /\ errorLog' = <<>>
    /\ downloads' = <<>>
    /\ opened' = <<>>
    /\ classified' = <<>>
    /\ saveCalls' = <<>>
    /\ file' = 0
    /\ renderFailed' = FALSE
    /\ startInputs' = [files |-> files, colorThreshold |-> colorThreshold,
                       insertBlankPages |-> insertBlankPages]
    /\ UNCHANGED <<files, colorThreshold, insertBlankPages, processing, detectVars>>

\* a click on the enabled button: processPDFs up to its first await.  startInputs
\* records the selection and the options at that moment.
Start ==
    /\ ButtonEnabled
    /\ processing' = TRUE
    /\ progress' = Msg("progress_starting", 0, 0, 0)
    /\ results' = [colorPages |-> 0, bwPages |-> 0]
    /\ pc' = "create"
    /\ colorPDF' = <<>>
    /\ bwPDF' = <<>>
    /\ fileIndex' = 0
    /\ pageCount' = 0
    /\ pageIndex' = 0
    /\ isColorPage' = FALSE
    /\ colorPdfBytes' = FALSE
    /\ bwPdfBytes' = FALSE
    /\ errorLog' = <<>>
    /\ downloads' = <<>>
    /\ opened' = <<>>
    /\ classified' = <<>>
    /\ saveCalls' = <<>>
    /\ file' = 0
    /\ renderFailed' = FALSE
    /\ startInputs' = [files |-> files, colorThreshold |-> colorThreshold,
                       insertBlankPages |-> insertBlankPages]
    /\ UNCHANGED <<files, colorThreshold, insertBlankPages, detectVars>>

\* await PDFDocument.create(), twice, before the try block: a rejection leaves
\* processPDFs with neither the catch nor the finally run
CreateAccumulators ==
    /\ pc = "create"
    /\ \/ pc' = "fileLoop"
       \/ pc' = "rejected"
    /\ UNCHANGED <<files, colorThreshold, insertBlankPages, processing, progress,
                   results, colorPDF, bwPDF, fileIndex, pageCount, pageIndex,
                   isColorPage, colorPdfBytes, bwPdfBytes, errorLog, downloads, opened,
                   classified, saveCalls, detectVars,
                   file, startInputs, renderFailed>>

\* for (fileIndex < files.length): the file's progress message, or the end of the
\* loop and progress_generating
FileLoop ==
    /\ pc = "fileLoop"
    /\ IF fileIndex < Len(files)
       THEN /\ file' = files[fileIndex + 1]
            /\ progress' = Msg("progress_processing_file", file', fileIndex + 1, Len(files))
            /\ pc' = "read"
       ELSE /\ progress' = Msg("progress_generating", 0, 0, 0)
            /\ pc' = "saveColor"
            /\ UNCHANGED file
    /\ UNCHANGED <<files, colorThreshold, insertBlankPages, processing, results,
                   colorPDF, bwPDF, fileIndex, pageCount, pageIndex, isColorPage,
                   colorPdfBytes, bwPdfBytes, errorLog, downloads, opened, classified,
                   saveCalls, detectVars,
                   startInputs, renderFailed>>

\* SkipFile with break in place of continue
SkipFileEndsLoop(kind) ==
    /\ errorLog' = Append(errorLog, LogEntry(kind, FileName, 0))
    /\ progress' = Msg(kind, FileName, 0, 0)
    /\ fileIndex' = Len(files)
    /\ pc' = "fileLoop"

\* a file-level catch block: console.error, the error message, continue
SkipFile(kind) ==
    /\ errorLog' = Append(errorLog, LogEntry(kind, FileName, 0))
    /\ progress' = Msg(kind, FileName, 0, 0)
    /\ fileIndex' = fileIndex + 1
    /\ pc' = "fileLoop"

\* await file.arrayBuffer()
ReadFile ==
    /\ pc = "read"
    /\ \/ /\ pc' = "load"
          /\ UNCHANGED <<errorLog, progress, fileIndex>>
       \/ SkipFile("error_reading_file")
    /\ UNCHANGED <<files, colorThreshold, insertBlankPages, processing, results,
                   colorPDF, bwPDF, pageCount, pageIndex, isColorPage, colorPdfBytes,
                   bwPdfBytes, downloads, opened, classified, saveCalls, detectVars,
                   file, startInputs, renderFailed>>

\* await PDFDocument.load(arrayBuffer), then sourcePDF.getPageCount()
LoadPDF ==
    /\ pc = "load"
    /\ \/ /\ \E n \in 0..(MaxTotalPages - Len(classified)) : pageCount' = n
          /\ pc' = "getDocument"
          /\ UNCHANGED <<errorLog, progress, fileIndex>>
       \/ /\ SkipFile("error_invalid_pdf")
          /\ UNCHANGED pageCount
    /\ UNCHANGED <<files, colorThreshold, insertBlankPages, processing, results,
                   colorPDF, bwPDF, pageIndex, isColorPage, colorPdfBytes,
                   bwPdfBytes, downloads, opened, classified, saveCalls, detectVars,
                   file, startInputs, renderFailed>>

\* if (insertBlankPages && fileIndex > 0)
InsertsBlank == insertBlankPages /\ fileIndex > 0

\* await pdfjsLib.getDocument(arrayBuffer).promise, then the blank pages and the
\* start of the page loop
GetDocument ==
    /\ pc = "getDocument"
    /\ \/ /\ colorPDF' = IF InsertsBlank THEN Append(colorPDF, BlankPage) ELSE colorPDF
          /\ bwPDF' = IF InsertsBlank THEN Append(bwPDF, BlankPage) ELSE bwPDF
          /\ opened' = Append(opened, [file |-> FileName, pages |-> pageCount])
          /\ pageIndex' = 0
          /\ pc' = "pageLoop"
          /\ UNCHANGED <<errorLog, progress, fileIndex>>
       \/ /\ SkipFile("error_processing_file")
          /\ UNCHANGED <<colorPDF, bwPDF, opened, pageIndex>>
    /\ UNCHANGED <<files, colorThreshold, insertBlankPages, processing, results,
                   pageCount, isColorPage, colorPdfBytes, bwPdfBytes, downloads,
                   classified, saveCalls, detectVars,
                   file, startInputs, renderFailed>>

\* for (pageIndex < pageCount): the page's progress message, or the next file
PageLoop ==
    /\ pc = "pageLoop"
    /\ renderFailed' = FALSE
    /\ IF pageIndex < pageCount
       THEN /\ progress' = Msg("progress_processing_page", FileName, pageIndex + 1, pageCount)
            /\ isColorPage' = FALSE
            /\ pc' = "render"
            /\ UNCHANGED fileIndex
       ELSE /\ fileIndex' = fileIndex + 1
            /\ pc' = "fileLoop"
            /\ UNCHANGED <<progress, isColorPage>>
    /\ UNCHANGED <<files, colorThreshold, insertBlankPages, processing, results,
                   colorPDF, bwPDF, pageCount, pageIndex, colorPdfBytes, bwPdfBytes,
                   errorLog, downloads, opened, classified, saveCalls, detectVars,
                   file, startInputs>>

\* the history entry of a page: its verdict and the threshold read by the render
\* try block
Classified(c, t) ==
    [file |-> FileName, page |-> pageIndex + 1, color |-> c, threshold |-> t]

\* RenderPage with a failed render leaving the page marked color
RenderPageFailureAsColor ==
    /\ pc = "render"
    /\ \/ /\ \E raster \in PageRasters :
                 isColorPage' = detectColor(raster, colorThreshold)
          /\ renderFailed' = FALSE
       \/ /\ isColorPage' = TRUE
          /\ renderFailed' = TRUE
    /\ classified' = Append(classified, Classified(isColorPage', colorThreshold))
    /\ pc' = "copy"
    /\ UNCHANGED <<files, colorThreshold, insertBlankPages, processing, progress,
                   results, colorPDF, bwPDF, fileIndex, pageCount, pageIndex,
                   colorPdfBytes, bwPdfBytes, errorLog, downloads, opened, saveCalls,
                   detectVars, file, startInputs>>

\* the render try block: getPage, render, getImageData, detectColor; any failure
\* is logged to the console only and leaves the page black and white
RenderPage ==
    /\ pc = "render"
    /\ \/ /\ \E raster \in PageRasters :
                 isColorPage' = detectColor(raster, colorThreshold)
          /\ renderFailed' = FALSE
       \/ /\ isColorPage' = FALSE
          /\ renderFailed' = TRUE
    /\ classified' = Append(classified, Classified(isColorPage', colorThreshold))
    /\ pc' = "copy"
    /\ UNCHANGED <<files, colorThreshold, insertBlankPages, processing, progress,
                   results, colorPDF, bwPDF, fileIndex, pageCount, pageIndex,
                   colorPdfBytes, bwPdfBytes, errorLog, downloads, opened, saveCalls,
                   detectVars, file, startInputs>>

\* CopySucceeds with the page inserted at the front of its document
CopySucceedsAtFront ==
    /\ colorPDF' = IF isColorPage
                   THEN <<SourcePage(FileName, pageIndex + 1)>> \o colorPDF
                   ELSE colorPDF
    /\ bwPDF' = IF isColorPage
                THEN bwPDF
                ELSE <<SourcePage(FileName, pageIndex + 1)>> \o bwPDF
    /\ results' = IF isColorPage
                  THEN [results EXCEPT !.colorPages = @ + 1]
                  ELSE [results EXCEPT !.bwPages = @ + 1]
    /\ UNCHANGED <<errorLog, progress>>

\* the copy try block after a successful copyPages: addPage on the document
\* isColorPage selects, then that document's counter
CopySucceeds ==
    /\ colorPDF' = IF isColorPage
                   THEN Append(colorPDF, SourcePage(FileName, pageIndex + 1))
                   ELSE colorPDF
    /\ bwPDF' = IF isColorPage
                THEN bwPDF
                ELSE Append(bwPDF, SourcePage(FileName, pageIndex + 1))
    /\ results' = IF isColorPage
                  THEN [results EXCEPT !.colorPages = @ + 1]
                  ELSE [results EXCEPT !.bwPages = @ + 1]
    /\ UNCHANGED <<errorLog, progress>>

\* CopyFails with the page added to its document before the failure is caught
CopyFailsAfterAddPage ==
    /\ errorLog' = Append(errorLog, LogEntry("error_copying_page", FileName, pageIndex + 1))
    /\ progress' = Msg("error_copying_page", FileName, pageIndex + 1, 0)
    /\ colorPDF' = IF isColorPage
                   THEN Append(colorPDF, SourcePage(FileName, pageIndex + 1))
                   ELSE colorPDF
    /\ bwPDF' = IF isColorPage
                THEN bwPDF
                ELSE Append(bwPDF, SourcePage(FileName, pageIndex + 1))
    /\ UNCHANGED results

\* the catch of the copy try block: console.error, the error message, continue
CopyFails ==
    /\ errorLog' = Append(errorLog, LogEntry("error_copying_page", FileName, pageIndex + 1))
    /\ progress' = Msg("error_copying_page", FileName, pageIndex + 1, 0)
    /\ UNCHANGED <<colorPDF, bwPDF, results>>

\* the copy try block and the step to the next page
CopyPage ==
    /\ pc = "copy"
    /\ \/ CopySucceeds
       \/ CopyFails
    /\ pageIndex' = pageIndex + 1
    /\ pc' = "pageLoop"
    /\ UNCHANGED <<files, colorThreshold, insertBlankPages, processing, fileIndex,
                   pageCount, isColorPage, colorPdfBytes, bwPdfBytes, downloads,
                   opened, classified, saveCalls, detectVars,
                   file, startInputs, renderFailed>>

\* the catch of the save try block: console.error, error_generating_pdfs, return,
\* and the finally block on the way out
SaveFailed(doc) ==
    /\ saveCalls' = Append(saveCalls, [doc |-> doc, ok |-> FALSE])
    /\ errorLog' = Append(errorLog, LogEntry("error_generating_pdfs", 0, 0))
    /\ progress' = Msg("error_generating_pdfs", 0, 0, 0)
    /\ processing' = FALSE
    /\ pc' = "done"

\* if (results.colorPages > 0)
SavesColor == results.colorPages > 0

\* SavesBw testing the document's page count instead of the counter
SavesBwWhenNonEmpty == Len(bwPDF) > 0

\* if (results.bwPages > 0)
SavesBw == results.bwPages > 0

\* if (results.colorPages > 0) colorPdfBytes = await colorPDF.save()
SaveColor ==
    /\ pc = "saveColor"
    /\ IF SavesColor
       THEN \/ /\ saveCalls' = Append(saveCalls, [doc |-> "color", ok |-> TRUE])
               /\ colorPdfBytes' = TRUE
               /\ pc' = "saveBw"
               /\ UNCHANGED <<errorLog, progress, processing>>
            \/ /\ SaveFailed("color")
               /\ UNCHANGED colorPdfBytes
       ELSE /\ pc' = "saveBw"
            /\ UNCHANGED <<saveCalls, colorPdfBytes, errorLog, progress, processing>>
    /\ UNCHANGED <<files, colorThreshold, insertBlankPages, results, colorPDF, bwPDF,
                   fileIndex, pageCount, pageIndex, isColorPage, bwPdfBytes, downloads,
                   opened, classified, detectVars,
                   file, startInputs, renderFailed>>

\* if (results.bwPages > 0) bwPdfBytes = await bwPDF.save()
SaveBw ==
    /\ pc = "saveBw"
    /\ IF SavesBw
       THEN \/ /\ saveCalls' = Append(saveCalls, [doc |-> "bw", ok |-> TRUE])
               /\ bwPdfBytes' = TRUE
               /\ pc' = "downloadColor"
               /\ UNCHANGED <<errorLog, progress, processing>>
            \/ /\ SaveFailed("bw")
               /\ UNCHANGED bwPdfBytes
       ELSE /\ pc' = "downloadColor"
            /\ UNCHANGED <<saveCalls, bwPdfBytes, errorLog, progress, processing>>
    /\ UNCHANGED <<files, colorThreshold, insertBlankPages, results, colorPDF, bwPDF,
                   fileIndex, pageCount, pageIndex, isColorPage, colorPdfBytes,
                   downloads, opened, classified, detectVars,
                   file, startInputs, renderFailed>>

\* if (colorPdfBytes && results.colorPages > 0): the Blob, the link, click()
DownloadColor ==
    /\ pc = "downloadColor"
    /\ IF colorPdfBytes /\ results.colorPages > 0
       THEN \/ /\ downloads' = Append(downloads, "color_pages.pdf")
               /\ UNCHANGED <<errorLog, progress>>
            \/ /\ errorLog' = Append(errorLog, LogEntry("error_downloading_color", 0, 0))
               /\ progress' = Msg("error_downloading_color", 0, 0, 0)
               /\ UNCHANGED downloads
       ELSE UNCHANGED <<downloads, errorLog, progress>>
    /\ pc' = "downloadBw"
    /\ UNCHANGED <<files, colorThreshold, insertBlankPages, processing, results,
                   colorPDF, bwPDF, fileIndex, pageCount, pageIndex, isColorPage,
                   colorPdfBytes, bwPdfBytes, opened, classified, saveCalls, detectVars,
                   file, startInputs, renderFailed>>

\* if (bwPdfBytes && results.bwPages > 0): the Blob, the link, click()
DownloadBw ==
    /\ pc = "downloadBw"
    /\ IF bwPdfBytes /\ results.bwPages > 0
       THEN \/ /\ downloads' = Append(downloads, "bw_pages.pdf")
               /\ UNCHANGED <<errorLog, progress>>
            \/ /\ errorLog' = Append(errorLog, LogEntry("error_downloading_bw", 0, 0))
               /\ progress' = Msg("error_downloading_bw", 0, 0, 0)
               /\ UNCHANGED downloads
       ELSE UNCHANGED <<downloads, errorLog, progress>>
    /\ pc' = "finish"
    /\ UNCHANGED <<files, colorThreshold, insertBlankPages, processing, results,
                   colorPDF, bwPDF, fileIndex, pageCount, pageIndex, isColorPage,
                   colorPdfBytes, bwPdfBytes, opened, classified, saveCalls, detectVars,
                   file, startInputs, renderFailed>>

\* NoPagesCounted with || in place of &&
NoPagesCountedEither == results.colorPages = 0 \/ results.bwPages = 0

\* if (results.colorPages === 0 && results.bwPages === 0)
NoPagesCounted == results.colorPages = 0 /\ results.bwPages = 0

\* the final outcome message, then the finally block
Finish ==
    /\ pc = "finish"
    /\ progress' = IF NoPagesCounted
                   THEN Msg("error_no_pages", 0, 0, 0)
                   ELSE Msg("progress_complete", 0, 0, 0)
    /\ processing' = FALSE
    /\ pc' = "done"
    /\ UNCHANGED <<files, colorThreshold, insertBlankPages, results, colorPDF, bwPDF,
                   fileIndex, pageCount, pageIndex, isColorPage, colorPdfBytes,
                   bwPdfBytes, errorLog, downloads, opened, classified, saveCalls,
                   detectVars, file, startInputs, renderFailed>>

Next ==
    \/ \E n \in 0..MaxFiles : handleFileChange(n)
    \/ \E t \in SliderStops : SetThreshold(t)
    \/ ToggleBlankPages
    \/ Start
    \/ CreateAccumulators
    \/ FileLoop
    \/ ReadFile
    \/ LoadPDF
    \/ GetDocument
    \/ PageLoop
    \/ RenderPage
    \/ CopyPage
    \/ SaveColor
    \/ SaveBw
    \/ DownloadColor
    \/ DownloadBw
    \/ Finish

Spec == Init /\ [][Next]_vars

(***************************************************************************)
(* SpecLive: the page component with its inputs usable during a run.  The  *)
(* file input, the slider and the checkbox are not disabled while          *)
(* processing is true, so their handlers can run whenever processPDFs is   *)
(* suspended at an await.  The user is taken to make at most one such      *)
(* change during a run.                                                    *)
(***************************************************************************)

\* a call of processPDFs is between its entry and its return
RunActive == pc \notin {"idle", "done", "rejected"}

\* no input was changed since the run started
InputsUntouched ==
    /\ files = startInputs.files
    /\ colorThreshold = startInputs.colorThreshold
    /\ insertBlankPages = startInputs.insertBlankPages

\* handleFileChange while a run is suspended
handleFileChangeDuringRun(n) ==
    /\ RunActive
    /\ InputsUntouched
    /\ n # Len(files)
    /\ files' = [i \in 1..n |-> i]
    /\ UNCHANGED <<colorThreshold, insertBlankPages, processing, progress, results,
                   pc, colorPDF, bwPDF, fileIndex, pageCount, pageIndex, isColorPage,
                   colorPdfBytes, bwPdfBytes, errorLog, downloads, opened, classified,
                   saveCalls, detectVars, file, startInputs, renderFailed>>

\* bind:value={colorThreshold} while a run is suspended
SetThresholdDuringRun(t) ==
    /\ RunActive
    /\ InputsUntouched
    /\ t # colorThreshold
    /\ colorThreshold' = t
    /\ UNCHANGED <<files, insertBlankPages, processing, progress, results,
                   pc, colorPDF, bwPDF, fileIndex, pageCount, pageIndex, isColorPage,
                   colorPdfBytes, bwPdfBytes, errorLog, downloads, opened, classified,
                   saveCalls, detectVars, file, startInputs, renderFailed>>

\* bind:checked={insertBlankPages} while a run is suspended
ToggleBlankPagesDuringRun ==
    /\ RunActive
    /\ InputsUntouched
    /\ insertBlankPages' = ~insertBlankPages
    /\ UNCHANGED <<files, colorThreshold, processing, progress, results,
                   pc, colorPDF, bwPDF, fileIndex, pageCount, pageIndex, isColorPage,
                   colorPdfBytes, bwPdfBytes, errorLog, downloads, opened, classified,
                   saveCalls, detectVars, file, startInputs, renderFailed>>

NextLive ==
    \/ Next
    \/ \E n \in 0..MaxFiles : handleFileChangeDuringRun(n)
    \/ \E t \in SliderStops : SetThresholdDuringRun(t)
    \/ ToggleBlankPagesDuringRun

SpecLive == Init /\ [][NextLive]_vars

(***************************************************************************)
(* Properties of a run of processPDFs                                      *)
(***************************************************************************)

\* processPDFs has returned, or has thrown out of its first awaits
RunOver == pc \in {"done", "rejected"}

\* how many times x occurs in the sequence q
Occurrences(q, x) == Cardinality({k \in DOMAIN q : q[k] = x})

\* the source pages of an output document, in order, without the blank pages
SourcePagesOf(doc) == SelectSeq(doc, LAMBDA x : x # BlankPage)

\* every page of every file that reached the page loop
OpenedPages == UNION {{SourcePage(o.file, n) : n \in 1..o.pages} : o \in {opened[k] : k \in DOMAIN opened}}

CopyDiagnostic(x) == LogEntry("error_copying_page", x.file, x.page)

\* C1: when a run is over, every page of every successfully opened file is
\* either once in exactly one of colorPDF and bwPDF, or accounted for by exactly
\* one copy-failure diagnostic: never both, never neither, never in both documents.
C1_EveryPageOnceOrDiagnosed ==
    RunOver =>
        \A x \in OpenedPages :
            Occurrences(colorPDF, x) + Occurrences(bwPDF, x)
                + Occurrences(errorLog, CopyDiagnostic(x)) = 1

\* a finished run with a page in one document and a page whose copy failed
C1_Witness ==
    /\ pc = "done"
    /\ \E x, z \in OpenedPages :
        /\ Occurrences(colorPDF, x) + Occurrences(bwPDF, x) = 1
        /\ Occurrences(errorLog, CopyDiagnostic(z)) = 1

\* (file, page) pairs in file-then-page order: file names are the positions in files
Precedes(x, y) == x.file < y.file \/ (x.file = y.file /\ x.page < y.page)

InFilePageOrder(q) == \A i, j \in DOMAIN q : i < j => Precedes(q[i], q[j])

\* the pages the render step classified as color (c = TRUE) or as black and white
ClassifiedAs(c) ==
    {SourcePage(classified[k].file, classified[k].page) :
        k \in {i \in DOMAIN classified : classified[i].color = c}}

Elements(q) == {q[k] : k \in DOMAIN q}

\* the run opened every selected file and logged no failure
NoFailures ==
    /\ errorLog = <<>>
    /\ Len(opened) = Len(files)

\* C2: after a run with no failures, the source pages of each output document
\* are, in the order they were appended, exactly the pages classified into its
\* class, in file-then-page order.
C2_PageOrder ==
    (pc = "done" /\ NoFailures) =>
        /\ InFilePageOrder(SourcePagesOf(colorPDF))
        /\ InFilePageOrder(SourcePagesOf(bwPDF))
        /\ Elements(SourcePagesOf(colorPDF)) = ClassifiedAs(TRUE)
        /\ Elements(SourcePagesOf(bwPDF)) = ClassifiedAs(FALSE)
        /\ ClassifiedAs(TRUE) \cup ClassifiedAs(FALSE) = OpenedPages
        /\ Len(classified) = Cardinality(OpenedPages)

\* a run over two files with no failure that leaves one page of each file in
\* colorPDF, a separator page between them
C2_Witness ==
    /\ pc = "done"
    /\ NoFailures
    /\ Len(files) = 2
    /\ colorPDF = <<SourcePage(1, 1), BlankPage, SourcePage(2, 1)>>

\* the position of file f among the files that reached the page loop
OpenedRank(f) == CHOOSE k \in DOMAIN opened : opened[k].file = f

BlanksBefore(doc, k) == Cardinality({i \in 1..(k - 1) : doc[i] = BlankPage})

\* exactly one blank page ahead of the pages of each opened file but the first,
\* and none ahead of the pages of the first opened file
SeparatorsBetweenFiles(doc) ==
    \A k \in DOMAIN doc :
        doc[k] # BlankPage => BlanksBefore(doc, k) = OpenedRank(doc[k].file) - 1

\* C3: with separators enabled and at least two successfully opened files, each
\* document holds exactly one blank page between the pages of consecutive opened
\* files and none before the pages of the first opened file.
C3_SeparatorInvariant ==
    (pc = "done" /\ insertBlankPages /\ Len(opened) >= 2) =>
        /\ SeparatorsBetweenFiles(colorPDF)
        /\ SeparatorsBetweenFiles(bwPDF)

\* C13: a separator page is added ahead of a file's pages exactly when
\* separators are enabled and a file was successfully opened before it: each
\* document holds one blank page per opened file but the first, so none while
\* the first file that opens is the only one opened.
C13_SeparatorOnlyAfterOpenedFile ==
    \A doc \in {colorPDF, bwPDF} :
        Occurrences(doc, BlankPage) =
            IF insertBlankPages /\ Len(opened) > 1 THEN Len(opened) - 1 ELSE 0

\* the last element of a non-empty sequence is x
EndsWith(q, x) == q # <<>> /\ q[Len(q)] = x

\* C14: a page whose rasterization or classification failed does not end the run
\* and leaves no error message: it goes to the copy step as a black and white
\* page, and after the copy step it is the last page of bwPDF and counted in
\* results.bwPages, or its copy failed and is diagnosed; it is never in colorPDF,
\* and the page loop goes on with the next page index.
C14_RenderFailureIsBlackAndWhite ==
    renderFailed =>
        /\ processing
        /\ ~isColorPage
        /\ pc \in {"copy", "pageLoop"}
        /\ pc = "copy" =>
               /\ progress = Msg("progress_processing_page", FileName, pageIndex + 1, pageCount)
               /\ Occurrences(colorPDF, SourcePage(FileName, pageIndex + 1)) = 0
               /\ Occurrences(bwPDF, SourcePage(FileName, pageIndex + 1)) = 0
        /\ pc = "pageLoop" =>
               /\ pageIndex \in 1..pageCount
               /\ Occurrences(colorPDF, SourcePage(FileName, pageIndex)) = 0
               /\ \/ /\ EndsWith(bwPDF, SourcePage(FileName, pageIndex))
                     /\ Occurrences(bwPDF, SourcePage(FileName, pageIndex)) = 1
                     /\ results.bwPages = Len(SourcePagesOf(bwPDF))
                     /\ progress = Msg("progress_processing_page", FileName, pageIndex, pageCount)
                  \/ /\ Occurrences(bwPDF, SourcePage(FileName, pageIndex)) = 0
                     /\ EndsWith(errorLog, CopyDiagnostic(SourcePage(FileName, pageIndex)))
                     /\ progress.msg = "error_copying_page"

\* the first page of a two-page file failed to render, was copied to bwPDF and
\* counted, and the page loop is about to take the second page
C14_Witness ==
    /\ renderFailed
    /\ pc = "pageLoop"
    /\ pageIndex < pageCount
    /\ EndsWith(bwPDF, SourcePage(FileName, pageIndex))
    /\ results.bwPages = 1
    /\ errorLog = <<>>

\* the diagnostics of the three file-level catch blocks
FileDiagnosticKinds == {"error_reading_file", "error_invalid_pdf", "error_processing_file"}

\* the files whose read, pdf-lib load or pdf.js load failed in this run
FailedFiles ==
    {errorLog[k].file : k \in {i \in DOMAIN errorLog : errorLog[i].kind \in FileDiagnosticKinds}}

OpenedFiles == {opened[k].file : k \in DOMAIN opened}

\* the file loop has ended normally
PastFileLoop == pc \in {"saveColor", "saveBw", "downloadColor", "downloadBw", "finish", "done"}

\* C15: a file whose read, pdf-lib load or pdf.js load failed has none of its
\* pages in either document, classified or counted (the counters count exactly
\* the source pages of the documents), the loop has moved past it, and once the
\* file loop has ended every file of the selection was either opened or
\* diagnosed, the opened ones in input order.
C15_FailedFileSkipped ==
    LET failed == FailedFiles
    IN  /\ failed \cap OpenedFiles = {}
        /\ \A k \in DOMAIN colorPDF : colorPDF[k].file \notin failed
        /\ \A k \in DOMAIN bwPDF : bwPDF[k].file \notin failed
        /\ \A k \in DOMAIN classified : classified[k].file \notin failed
        /\ \A f \in failed : f <= fileIndex
        /\ results.colorPages = Len(colorPDF) - Occurrences(colorPDF, BlankPage)
        /\ results.bwPages = Len(bwPDF) - Occurrences(bwPDF, BlankPage)
        /\ \A i \in 1..(Len(opened) - 1) : opened[i].file < opened[i + 1].file
        /\ PastFileLoop => OpenedFiles \cup failed = Elements(files)

\* a finished run over three files: the first could not be read, the second
\* failed to load in pdf.js, and the third was opened and its page counted
C15_Witness ==
    /\ pc = "done"
    /\ errorLog = <<LogEntry("error_reading_file", 1, 0),
                    LogEntry("error_processing_file", 2, 0)>>
    /\ opened = <<[file |-> 3, pages |-> 1]>>
    /\ results.colorPages + results.bwPages = 1

CopyDiagnostics == SelectSeq(errorLog, LAMBDA e : e.kind = "error_copying_page")

\* C16: in every state of a run each counter of results equals the number of
\* source pages in its document: blank pages are not counted, a page whose copy
\* failed is in no document and in no counter, so the counted pages and the copy
\* diagnostics together are the pages that went through the copy step; and a
\* run starts with both counters at 0.
C16_CountersMatchDocuments ==
    /\ results.colorPages = Len(SourcePagesOf(colorPDF))
    /\ results.bwPages = Len(SourcePagesOf(bwPDF))
    /\ results.colorPages + results.bwPages + Len(CopyDiagnostics)
           = Len(classified) - (IF pc = "copy" THEN 1 ELSE 0)
    /\ pc = "create" => results = [colorPages |-> 0, bwPages |-> 0]

\* both documents hold a separator page, the first page of the second file was
\* copied to colorPDF and counted, and the copy of its second page failed
C16_Witness ==
    /\ colorPDF = <<BlankPage, SourcePage(2, 1)>>
    /\ bwPDF = <<BlankPage>>
    /\ results = [colorPages |-> 1, bwPages |-> 0]
    /\ EndsWith(errorLog, CopyDiagnostic(SourcePage(2, 2)))

ClassifiedPages == [k \in DOMAIN classified |-> SourcePage(classified[k].file, classified[k].page)]

\* C18: at most one run is active: while a run is active processing is true,
\* so the button that calls processPDFs is disabled and no second run can
\* start; the button is enabled only when no run is active.  The one run takes
\* its files and pages one at a time in input order: the pages classified so
\* far are in file-then-page order, the last of them the page in progress.
C18_OneRunAtATime ==
    /\ RunActive => processing
    /\ processing => ~ButtonEnabled
    /\ ButtonEnabled => ~RunActive
    /\ InFilePageOrder(ClassifiedPages)
    /\ pc = "copy" => EndsWith(ClassifiedPages, SourcePage(FileName, pageIndex + 1))

\* a run at the copy step of its second page: files are selected, and only
\* processing keeps the button disabled
C18_Witness ==
    /\ pc = "copy"
    /\ Len(classified) = 2
    /\ Len(files) > 0
    /\ processing
    /\ ~ButtonEnabled

\* C19: a run works on the inputs as they were when it started: every page is
\* classified at the threshold of the start, the files it opens or diagnoses
\* are files of the selection of the start, all of them once the file loop has
\* ended, and separator pages are added (ahead of each opened file but the
\* first of the list) exactly if the option was on at the start.
C19_InputsAsAtStart ==
    /\ \A k \in DOMAIN classified : classified[k].threshold = startInputs.colorThreshold
    /\ OpenedFiles \cup FailedFiles \subseteq Elements(startInputs.files)
    /\ PastFileLoop => OpenedFiles \cup FailedFiles = Elements(startInputs.files)
    /\ \A doc \in {colorPDF, bwPDF} :
           Occurrences(doc, BlankPage) =
               IF startInputs.insertBlankPages
               THEN Cardinality({f \in OpenedFiles : f > 1})
               ELSE 0

HasSourcePage(doc) == SourcePagesOf(doc) # <<>>

\* save() was called on the document, and it resolved
SaveAttempted(doc) == \E k \in DOMAIN saveCalls : saveCalls[k].doc = doc

SaveResolved(doc) == \E k \in DOMAIN saveCalls : saveCalls[k] = [doc |-> doc, ok |-> TRUE]

SaveRejected(doc) == \E k \in DOMAIN saveCalls : saveCalls[k] = [doc |-> doc, ok |-> FALSE]

Downloaded(name) == \E k \in DOMAIN downloads : downloads[k] = name

C5_OtherOutputStillEmitted ==
    (pc = "done" /\ (SaveRejected("color") \/ SaveRejected("bw"))) =>
        /\ Occurrences(errorLog, LogEntry("error_generating_pdfs", 0, 0)) = 1
        /\ results.colorPages = Len(SourcePagesOf(colorPDF))
        /\ results.bwPages = Len(SourcePagesOf(bwPDF))
        /\ (HasSourcePage(colorPDF) /\ SaveResolved("color")) => Downloaded("color_pages.pdf")
        /\ (HasSourcePage(bwPDF) /\ SaveResolved("bw")) => Downloaded("bw_pages.pdf")

\* the run went through both saves without a rejection
ReachedEndOfFinalization == pc = "done" /\ ~SaveRejected("color") /\ ~SaveRejected("bw")

\* C6: a run that reaches the end of finalization reports error_no_pages exactly
\* when no source page was routed to either document, and progress_complete
\* otherwise, whatever failures it logged.
C6_NoPagesOutcome ==
    ReachedEndOfFinalization =>
        IF ~HasSourcePage(colorPDF) /\ ~HasSourcePage(bwPDF)
        THEN progress = Msg("error_no_pages", 0, 0, 0)
        ELSE progress = Msg("progress_complete", 0, 0, 0)

\* a single unreadable file: one diagnostic, no page counted, nothing emitted,
\* and the error_no_pages outcome
C6_Witness ==
    /\ pc = "done"
    /\ files = <<1>>
    /\ errorLog = <<LogEntry("error_reading_file", 1, 0)>>
    /\ results = [colorPages |-> 0, bwPages |-> 0]
    /\ downloads = <<>>
    /\ progress = Msg("error_no_pages", 0, 0, 0)

\* the messages a run ends on
FinalMessages == {"error_no_pages", "progress_complete", "error_generating_pdfs", "error_unexpected"}

\* C7: whenever processPDFs is over, whatever failed, processing is false and
\* progress holds a final outcome message.
C7_RunEndsReporting ==
    RunOver => ~processing /\ progress.msg \in FinalMessages

FileOrPageDiagnostics ==
    {"error_reading_file", "error_invalid_pdf", "error_processing_file", "error_copying_page"}

\* C8: the diagnostics of failed files and failed page copies are distinct events
\* in file-then-page order, each with its file name, page and kind, and each is
\* still in the component's report (progress, results) when the run is over.
C8_DiagnosticsKeptInReport ==
    pc = "done" =>
        LET diagnostics == SelectSeq(errorLog, LAMBDA e : e.kind \in FileOrPageDiagnostics)
        IN  /\ InFilePageOrder(diagnostics)
            /\ \A k \in DOMAIN diagnostics :
                /\ diagnostics[k].file \in Elements(files)
                /\ progress.msg = diagnostics[k].kind
                /\ progress.file = diagnostics[k].file

(***************************************************************************)
(* Properties of detectColor (SpecDetect)                                  *)
(***************************************************************************)

\* C9: detectColor is monotone in the threshold: a buffer found black and white
\* at a threshold is found black and white again when the slider is raised.
\* Every buffer is reclassified one step up from every threshold of the slider's
\* range, so the steps chain to every higher threshold.
C9_MonotoneInThreshold ==
    (prevThreshold # 0 /\ prevThreshold <= threshold /\ ~prevVerdict) => ~verdict

\* a buffer that is colored at the lowest threshold, was found black and white
\* at a higher one, and is found black and white again after the slider is raised
C9_Witness ==
    /\ prevThreshold # 0
    /\ prevThreshold < threshold
    /\ ~prevVerdict
    /\ ~verdict
    /\ detectColor(imageData, MinThreshold)

\* every pixel of the buffer is the same opaque fully saturated hue
UniformSaturatedHue(data) ==
    /\ Len(data) > 0
    /\ \A k \in DOMAIN data : data[k] = data[1]
    /\ data[1][4] = 255
    /\ MinRGB(data[1]) = 0
    /\ MaxRGB(data[1]) > 0

\* C10: a buffer that is uniformly one opaque fully saturated hue is classified
\* Color at every threshold of [10, 100], in each luminance regime.
C10_SaturatedHueIsColor ==
    (threshold \in MinThreshold..MaxThreshold /\ UniformSaturatedHue(imageData)) => verdict

\* a uniform saturated hue of the normal regime classified at threshold 100,
\* where the saturation test fails and the chroma test decides
C10_Witness ==
    /\ threshold = MaxThreshold
    /\ UniformSaturatedHue(imageData)
    /\ ~IsDark(imageData[1])
    /\ ~IsBright(imageData[1])
    /\ ~SaturationExceeds(imageData[1], threshold, 10)
    /\ verdict

\* every pixel of the buffer is opaque black, or every pixel is opaque white
UniformAchromatic(data) ==
    /\ Len(data) > 0
    /\ \A k \in DOMAIN data : data[k] = data[1]
    /\ data[1] \in {Black, White}

\* C11: a uniform all-black or all-white opaque buffer is classified black and
\* white at every threshold.
C11_BlackAndWhiteBuffers ==
    (threshold # 0 /\ UniformAchromatic(imageData)) => ~verdict

\* an all-white buffer of more than one sample, of the bright regime, classified
\* black and white at the lowest threshold
C11_Witness ==
    /\ threshold = MinThreshold
    /\ UniformAchromatic(imageData)
    /\ Len(imageData) > PixelSkip
    /\ IsBright(imageData[1])
    /\ ~verdict

\* no pixel at a sampled position passes the alpha test
NoCountedSample(data) ==
    \A k \in DOMAIN data : (k - 1) % PixelSkip = 0 => data[k][4] < AlphaCutoff

\* every pixel of the buffer has alpha 0
FullyTransparent(data) == \A k \in DOMAIN data : data[k][4] = 0

\* C12: a buffer whose pixels are all fully transparent, and any buffer none of
\* whose sampled pixels is counted, is classified black and white at every
\* threshold; detectColor has a value for it.
C12_NothingCountedIsBlackAndWhite ==
    /\ FullyTransparent(imageData) => NoCountedSample(imageData)
    /\ (threshold # 0 /\ NoCountedSample(imageData)) =>
           /\ counts.sampledPixels = 0
           /\ verdict = FALSE

\* a fully transparent buffer of red pixels, two of them sampled, classified
\* black and white at the lowest threshold
C12_Witness ==
    /\ threshold = MinThreshold
    /\ Len(imageData) > PixelSkip
    /\ FullyTransparent(imageData)
    /\ imageData[1] = <<255, 0, 0, 0>>
    /\ ~verdict

(***************************************************************************)
(* Properties of detectColor's final decision (SpecDecide)                 *)
(***************************************************************************)

\* more than 30 % of the counted pixels are bright, or more than 30 % are dark
LoweredApplies(c) ==
    \/ 10 * c.brightPixels > 3 * c.sampledPixels
    \/ 10 * c.darkPixels > 3 * c.sampledPixels

\* the colored pixels are more than thousandths / 1000 percent of the counted ones
ColoredPercentExceeds(c, thousandths) ==
    100 * 1000 * c.colorPixels > thousandths * c.sampledPixels

\* C17: detectColor returns Color exactly when the percentage of counted pixels
\* flagged colored is strictly greater than the decision threshold: 0.005 when
\* more than 30 % of the counted pixels are bright or more than 30 % are dark,
\* 0.01 otherwise.
C17_DecisionThreshold ==
    (returned /\ counts.sampledPixels > 0) =>
        (verdict <=> ColoredPercentExceeds(counts, IF LoweredApplies(counts) THEN 5 ELSE 10))

\* one colored pixel in 15000, 0.0067 %, with just over 30 % of the pixels
\* bright: Color by the lowered threshold, below the base threshold
C17_Witness ==
    /\ returned
    /\ counts = [colorPixels |-> 1, sampledPixels |-> 15000,
                 brightPixels |-> 4501, darkPixels |-> 0]
    /\ verdict
    /\ ~ColoredPercentExceeds(counts, 10)

\* C20: with at least one and fewer than 10000 counted pixels, detectColor
\* returns Color exactly when at least one counted pixel is flagged colored, and
\* the base and the lowered threshold give the same verdict.
C20_OneColoredPixelDecides ==
    (returned /\ counts.sampledPixels >= 1 /\ counts.sampledPixels < 10000) =>
        /\ verdict <=> counts.colorPixels >= 1
        /\ ColoredPercentExceeds(counts, 5) <=> ColoredPercentExceeds(counts, 10)

\* one colored pixel in 9999, the largest such count, under the base threshold
C20_Witness ==
    /\ returned
    /\ counts.sampledPixels = 9999
    /\ counts.colorPixels = 1
    /\ ~LoweredApplies(counts)
    /\ verdict

====
